---- MODULE Spec2Model ----
(***************************************************************************)
(* Model of md_collector.py: the Bybit linear market-data collector.      *)
(*                                                                         *)
(* Two asyncio tasks share one thread: collect() (connect, subscribe,      *)
(* consume messages, enqueue records) and periodic_flush() (every          *)
(* FLUSH_INTERVAL_SEC seconds, flush_all()).  A task runs without          *)
(* interruption between two awaits, so every action below is the code      *)
(* between two awaits.                                                     *)
(*                                                                         *)
(* Python integers are unbounded.  A timestamp n is modelled as the pair   *)
(* [hi, lo] with n = hi * BASE + lo and 0 <= lo < BASE, so that            *)
(* microsecond values of real dates fit the checker's integers.            *)
(* Strings that the code slices or compares by prefix (topics, symbols)    *)
(* are sequences of one-character strings.                                 *)
(***************************************************************************)
EXTENDS Integers, Sequences, FiniteSets, TLC

\* ------------------------------------------------------------- bounds
\* Records enqueued over a whole behaviour (all process incarnations).
MaxRecords == 2

\* ---------------------------------------------------------- constants
\* ts_us / 1_000_000: microseconds per second, the base of the pairs.
BASE == 1000000

Big(hi, lo) == [hi |-> hi, lo |-> lo]

\* ------------------------------------------------------------ helpers
\* ms_to_us: int(ms) * 1_000, on pairs.
ms_to_us(ms) == [hi |-> ms.hi * 1000 + (ms.lo * 1000) \div BASE, lo |-> (ms.lo * 1000) % BASE]

\* datetime.fromtimestamp(..., tz=utc).strftime("%Y-%m-%d") of a day number
\* (days since 1970-01-01): the proleptic Gregorian calendar date <<Y, M, D>>.
utc_date(days) ==
    LET z   == days + 719468
        era == z \div 146097
        doe == z - era * 146097
        yoe == (doe - doe \div 1460 + doe \div 36524 - doe \div 146096) \div 365
        doy == doe - (365 * yoe + yoe \div 4 - yoe \div 100)
        mp  == (5 * doy + 2) \div 153
        d   == doy - (153 * mp + 2) \div 5 + 1
        m   == IF mp < 10 THEN mp + 3 ELSE mp - 9
        y   == yoe + era * 400 + (IF m <= 2 THEN 1 ELSE 0)
    IN  <<y, m, d>>

\* date_from_us: ts_us / 1_000_000 seconds since the epoch, as a UTC date.
date_from_us(ts_us) == utc_date(ts_us.hi \div 86400)

UpperCase == <<"A","B","C","D","E","F","G","H","I","J","K","L","M","N","O","P","Q","R","S","T","U","V","W","X","Y","Z">>
LowerCase == <<"a","b","c","d","e","f","g","h","i","j","k","l","m","n","o","p","q","r","s","t","u","v","w","x","y","z">>

\* str.lower() of one character.
lower_char(c) ==
    IF \E i \in 1..Len(UpperCase) : UpperCase[i] = c
    THEN LowerCase[CHOOSE i \in 1..Len(UpperCase) : UpperCase[i] = c]
    ELSE c

\* str.lower().
lower(s) == [i \in 1..Len(s) |-> lower_char(s[i])]

\* file_path: Path(output_dir) / "bybit-linear" / date / symbol.lower() / filename.
\* output_dir and the exchange tag are the same for every path of a run.
file_path(symbol, filename, ts_us) == [date |-> date_from_us(ts_us), symbol |-> lower(symbol), name |-> filename]

\* path.parent
parent(path) == [date |-> path.date, symbol |-> path.symbol]

\* --------------------------------------------------------------- text
Digits == <<"0","1","2","3","4","5","6","7","8","9">>

RECURSIVE decimal_nat(_)
\* str() of a natural number below 2^31, as a sequence of digit characters.
decimal_nat(n) == IF n < 10 THEN <<Digits[n + 1]>> ELSE decimal_nat(n \div 10) \o <<Digits[(n % 10) + 1]>>

\* A number below 10^6 as exactly six digit characters.
six_digits(n) == [i \in 1..6 |-> Digits[((n \div (10 ^ (6 - i))) % 10) + 1]]

\* str() of an integer held as a pair.
decimal(n) == IF n.hi = 0 THEN decimal_nat(n.lo) ELSE decimal_nat(n.hi) \o six_digits(n.lo)

\* str.startswith
startswith(s, prefix) == Len(s) >= Len(prefix) /\ SubSeq(s, 1, Len(prefix)) = prefix

\* s[12:]
from12(s) == SubSeq(s, 13, Len(s))

PUBLIC_TRADE == <<"p","u","b","l","i","c","T","r","a","d","e",".">>
ORDERBOOK_1 == <<"o","r","d","e","r","b","o","o","k",".","1",".">>

TRADE_COLS == <<"exchange", "symbol", "timestamp", "event_timestamp", "local_timestamp", "trade_id", "side", "price", "amount">>

QUOTE_COLS == <<"exchange", "symbol", "timestamp", "event_timestamp", "local_timestamp", "is_snapshot", "ask_amount", "ask_price", "bid_price", "bid_amount">>

\* local_ts_us: time.time_ns() // 1_000.  The clock reading ns is the pair
\* [hi, lo] of whole seconds and nanoseconds within the second.
local_ts_us(ns) == [hi |-> ns.hi, lo |-> ns.lo \div 1000]

\* A dict lookup with a default: d.get(k, default), d a function.
Get(d, k, default) == IF k \in DOMAIN d THEN d[k] ELSE default

\* ------------------------------------------------------------- buffer
\* The buffer state threaded through the handlers:
\*   buf   _buf, path -> list of rows (a key exists once it was used)
\*   cols  _cols, path -> column list
\*   order the insertion order of the keys of _buf (dict order)
\*   n     the number of rows enqueued so far (the identity of a row)
\*   log   path -> the identities enqueued to it, in order (history)
Buffer(buf, cols, order, n, log) == [buf |-> buf, cols |-> cols, order |-> order, n |-> n, log |-> log]

Put(d, k, v) == [x \in DOMAIN d \cup {k} |-> IF x = k THEN v ELSE d[x]]

\* enqueue(path, cols, row): _cols[key] = cols; _buf[key].append(row).
enqueue(B, path, cols, row) ==
    [buf   |-> Put(B.buf, path, Get(B.buf, path, <<>>) \o <<[id |-> B.n + 1, row |-> row]>>),
     cols  |-> Put(B.cols, path, cols),
     order |-> IF path \in DOMAIN B.buf THEN B.order ELSE Append(B.order, path),
     n     |-> B.n + 1,
     log   |-> Put(B.log, path, Get(B.log, path, <<>>) \o <<B.n + 1>>)]

\* The result of a handler: the buffer it leaves and whether it returned
\* (ok) or raised.
Returned(B) == [ok |-> TRUE, B |-> B]
Raised(B) == [ok |-> FALSE, B |-> B]

TRADE_KEYS == {"T", "i", "S", "p", "v"}

RECURSIVE trade_loop(_, _, _, _, _, _, _)
\* for t in msg.get("data", []): enqueue(path, TRADE_COLS, {...}); a missing
\* key of t raises KeyError before the enqueue of that entry.
trade_loop(B, symbol, data, k, event_ts, local_ts, path) ==
    IF k > Len(data) THEN Returned(B)
    ELSE LET t == data[k] IN
         IF ~(TRADE_KEYS \subseteq DOMAIN t) THEN Raised(B)
         ELSE trade_loop(
                enqueue(B, path, TRADE_COLS,
                        [exchange        |-> "bybit-linear",
                         symbol          |-> symbol,
                         timestamp       |-> ms_to_us(t.T),
                         event_timestamp |-> event_ts,
                         local_timestamp |-> local_ts,
                         trade_id        |-> t.i,
                         side            |-> IF t.S = "Buy" THEN "buy" ELSE "sell",
                         price           |-> t.p,
                         amount          |-> t.v]),
                symbol, data, k + 1, event_ts, local_ts, path)

\* on_trade taking the partition date from the event timestamp.
on_trade_event_date(B, symbol, msg, ns) ==
    LET local_ts == local_ts_us(ns) IN
    IF "ts" \notin DOMAIN msg THEN Raised(B)
    ELSE trade_loop(B, symbol, Get(msg, "data", <<>>), 1, ms_to_us(msg.ts), local_ts,
                    file_path(symbol, "trades.gz", ms_to_us(msg.ts)))

\* on_trade enqueueing the first entry of the data list only.
on_trade_first_entry(B, symbol, msg, ns) ==
    LET local_ts == local_ts_us(ns)
        data == Get(msg, "data", <<>>)
    IN  IF "ts" \notin DOMAIN msg THEN Raised(B)
        ELSE trade_loop(B, symbol, SubSeq(data, 1, IF Len(data) > 1 THEN 1 ELSE Len(data)), 1,
                        ms_to_us(msg.ts), local_ts, file_path(symbol, "trades.gz", local_ts))

\* on_trade(output_dir, symbol, msg): msg["ts"] raises KeyError when absent.
on_trade(B, symbol, msg, ns) ==
    LET local_ts == local_ts_us(ns) IN
    IF "ts" \notin DOMAIN msg THEN Raised(B)
    ELSE trade_loop(B, symbol, Get(msg, "data", <<>>), 1, ms_to_us(msg.ts), local_ts,
                    file_path(symbol, "trades.gz", local_ts))

\* on_quote without `if not bids or not asks: return`: asks[0] or bids[0]
\* of an empty list raises IndexError.
on_quote_no_side_check(B, symbol, msg, ns) ==
    LET local_ts == local_ts_us(ns) IN
    IF "ts" \notin DOMAIN msg THEN Raised(B)
    ELSE LET event_ts == ms_to_us(msg.ts)
             has_cts  == "cts" \in DOMAIN msg /\ msg.cts # Big(0, 0)
             ts       == IF has_cts THEN ms_to_us(msg.cts) ELSE event_ts
             data     == Get(msg, "data", [x \in {} |-> <<>>])
             bids     == Get(data, "b", <<>>)
             asks     == Get(data, "a", <<>>)
         IN  IF bids = <<>> \/ asks = <<>> THEN Raised(B)
             ELSE Returned(enqueue(B, file_path(symbol, "quotes.gz", local_ts), QUOTE_COLS,
                        [exchange        |-> "bybit-linear",
                         symbol          |-> symbol,
                         timestamp       |-> ts,
                         event_timestamp |-> event_ts,
                         local_timestamp |-> local_ts,
                         is_snapshot     |-> (Get(msg, "type", "") = "snapshot"),
                         ask_price       |-> asks[1][1],
                         ask_amount      |-> asks[1][2],
                         bid_price       |-> bids[1][1],
                         bid_amount      |-> bids[1][2]]))

\* on_quote(output_dir, symbol, msg).  `if cts` is false for an absent cts
\* and for the number 0.
on_quote(B, symbol, msg, ns) ==
    LET local_ts == local_ts_us(ns) IN
    IF "ts" \notin DOMAIN msg THEN Raised(B)
    ELSE LET event_ts == ms_to_us(msg.ts)
             has_cts  == "cts" \in DOMAIN msg /\ msg.cts # Big(0, 0)
             ts       == IF has_cts THEN ms_to_us(msg.cts) ELSE event_ts
             data     == Get(msg, "data", [x \in {} |-> <<>>])
             bids     == Get(data, "b", <<>>)
             asks     == Get(data, "a", <<>>)
         IN  IF bids = <<>> \/ asks = <<>> THEN Returned(B)
             ELSE Returned(enqueue(B, file_path(symbol, "quotes.gz", local_ts), QUOTE_COLS,
                        [exchange        |-> "bybit-linear",
                         symbol          |-> symbol,
                         timestamp       |-> ts,
                         event_timestamp |-> event_ts,
                         local_timestamp |-> local_ts,
                         is_snapshot     |-> (Get(msg, "type", "") = "snapshot"),
                         ask_price       |-> asks[1][1],
                         ask_amount      |-> asks[1][2],
                         bid_price       |-> bids[1][1],
                         bid_amount      |-> bids[1][2]]))

\* The body of `async for raw in ws`: json.loads, routing by topic.
\* raw.kind is "text" (not JSON: json.loads raises, caught, continue),
\* "array" (JSON that is no object: msg.get raises AttributeError, not
\* caught here) or "object" (raw.obj is the decoded dict).
on_message(B, raw, ns) ==
    IF raw.kind = "text" THEN Returned(B)
    ELSE IF raw.kind = "array" THEN Raised(B)
    ELSE LET msg == raw.obj
             topic == Get(msg, "topic", <<>>)
         IN  IF topic = <<>> THEN Returned(B)
             ELSE IF startswith(topic, PUBLIC_TRADE) THEN on_trade(B, from12(topic), msg, ns)
             ELSE IF startswith(topic, ORDERBOOK_1) THEN on_quote(B, from12(topic), msg, ns)
             ELSE Returned(B)

\* ------------------------------------------------------------- writer
\* str() of a row value, as csv.DictWriter writes it: a sequence of text
\* pieces.  Timestamps are integers, is_snapshot a bool, symbol a string
\* held as characters, the rest strings.
csv_cell(col, row) ==
    IF col \notin DOMAIN row THEN <<>>
    ELSE IF col \in {"timestamp", "event_timestamp", "local_timestamp"} THEN decimal(row[col])
    ELSE IF col = "is_snapshot" THEN (IF row[col] THEN <<"True">> ELSE <<"False">>)
    ELSE IF col = "symbol" THEN row[col]
    ELSE <<row[col]>>

\* writer.writeheader(): one line holding the column names.
header_line(cols) == [hdr |-> TRUE, id |-> 0, cells |-> [i \in 1..Len(cols) |-> <<cols[i]>>]]

\* writer.writerows(rows): one line per row, cells in the order of cols.
row_line(cols, r) == [hdr |-> FALSE, id |-> r.id, cells |-> [i \in 1..Len(cols) |-> csv_cell(cols[i], r.row)]]

row_lines(cols, rows) == [i \in 1..Len(rows) |-> row_line(cols, rows[i])]

\* A storage call of flush_all, as logged in io: n is the number of lines
\* a write call has written.
Call(op, path, n) == [op |-> op, path |-> path, n |-> n]

\* No storage call of this flush_all raises.
NoFault == [at |-> 0, stage |-> "none", n |-> 0]

\* flush_one with the clear left out: the rows are written and stay pending.
flush_one_keeps_rows(S, cols, key, k, fault) ==
    LET rows == S.buf[key] IN
    IF rows = <<>> THEN S
    ELSE LET file_exists == key \in DOMAIN S.files
             lines == (IF file_exists THEN <<>> ELSE <<header_line(cols[key])>>) \o row_lines(cols[key], rows)
         IN  [S EXCEPT !.dirs = S.dirs \cup {parent(key)},
                       !.io = @ \o <<Call("mkdir", key, 0), Call("open", key, 0), Call("write", key, Len(lines))>>,
                       !.files = Put(S.files, key, Get(S.files, key, <<>>) \o lines)]

\* flush_one writing the newest row first.
flush_one_reversed(S, cols, key, k, fault) ==
    LET rows == S.buf[key] IN
    IF rows = <<>> THEN S
    ELSE LET file_exists == key \in DOMAIN S.files
             reversed == [i \in 1..Len(rows) |-> rows[Len(rows) + 1 - i]]
             lines == (IF file_exists THEN <<>> ELSE <<header_line(cols[key])>>) \o row_lines(cols[key], reversed)
         IN  [S EXCEPT !.dirs = S.dirs \cup {parent(key)},
                       !.io = @ \o <<Call("mkdir", key, 0), Call("open", key, 0), Call("write", key, Len(lines))>>,
                       !.files = Put(S.files, key, Get(S.files, key, <<>>) \o lines),
                       !.buf = [S.buf EXCEPT ![key] = <<>>]]

\* flush_one writing the header on every flush (no path.exists() check).
flush_one_header_always(S, cols, key, k, fault) ==
    LET rows == S.buf[key] IN
    IF rows = <<>> THEN S
    ELSE [S EXCEPT !.dirs = S.dirs \cup {parent(key)},
                   !.io = @ \o <<Call("mkdir", key, 0), Call("open", key, 0), Call("write", key, Len(rows) + 1)>>,
                   !.files = Put(S.files, key, Get(S.files, key, <<>>) \o <<header_line(cols[key])>> \o row_lines(cols[key], rows)),
                   !.buf = [S.buf EXCEPT ![key] = <<>>]]

\* flush_one without `if not rows: continue`.
flush_one_no_skip(S, cols, key, k, fault) ==
    LET rows == S.buf[key]
        file_exists == key \in DOMAIN S.files
        lines == (IF file_exists THEN <<>> ELSE <<header_line(cols[key])>>) \o row_lines(cols[key], rows)
    IN  [S EXCEPT !.dirs = S.dirs \cup {parent(key)},
                  !.io = @ \o <<Call("mkdir", key, 0), Call("open", key, 0), Call("write", key, Len(lines))>>,
                  !.files = Put(S.files, key, Get(S.files, key, <<>>) \o lines),
                  !.buf = [S.buf EXCEPT ![key] = <<>>]]

\* flush_one clearing the pending list before the storage calls
\* (`_buf[key].clear()` moved above the write): a call that raises finds
\* the list already empty.
flush_one_clear_first(S, cols, key, k, fault) ==
    LET rows == S.buf[key] IN
    IF rows = <<>> THEN S
    ELSE LET file_exists == key \in DOMAIN S.files
             old    == Get(S.files, key, <<>>)
             lines  == (IF file_exists THEN <<>> ELSE <<header_line(cols[key])>>) \o row_lines(cols[key], rows)
             mkdir  == Call("mkdir", key, 0)
             open   == Call("open", key, 0)
             dirs1  == S.dirs \cup {parent(key)}
         IN  IF fault.at = k /\ fault.stage = "mkdir"
             THEN [S EXCEPT !.io = @ \o <<mkdir>>, !.ok = FALSE, !.buf = [S.buf EXCEPT ![key] = <<>>]]
             ELSE IF fault.at = k /\ fault.stage = "open"
             THEN [S EXCEPT !.dirs = dirs1, !.io = @ \o <<mkdir, open>>, !.ok = FALSE, !.buf = [S.buf EXCEPT ![key] = <<>>]]
             ELSE IF fault.at = k /\ fault.stage = "write"
             THEN [S EXCEPT !.dirs = dirs1, !.io = @ \o <<mkdir, open, Call("write", key, fault.n)>>, !.ok = FALSE,
                            !.files = Put(S.files, key, old \o SubSeq(lines, 1, fault.n)),
                            !.buf = [S.buf EXCEPT ![key] = <<>>]]
             ELSE [S EXCEPT !.dirs = dirs1, !.io = @ \o <<mkdir, open, Call("write", key, Len(lines))>>,
                            !.files = Put(S.files, key, old \o lines),
                            !.buf = [S.buf EXCEPT ![key] = <<>>]]

\* The body of the loop of flush_all for one key.  S is the state so far:
\* buf, files (path -> lines, for the files that exist), dirs (the
\* directories that exist), io (the storage calls made), ok (no call has
\* raised).  fault = [at, stage, n] makes the storage call `stage` of the
\* at-th key raise: "mkdir" before anything is created, "open" after the
\* directory exists, "write" after the file was opened (so it exists) and
\* n of its lines were written.
flush_one(S, cols, key, k, fault) ==
    LET rows == S.buf[key] IN
    IF rows = <<>> THEN S
    ELSE LET file_exists == key \in DOMAIN S.files
             old    == Get(S.files, key, <<>>)
             lines  == (IF file_exists THEN <<>> ELSE <<header_line(cols[key])>>) \o row_lines(cols[key], rows)
             mkdir  == Call("mkdir", key, 0)
             open   == Call("open", key, 0)
             dirs1  == S.dirs \cup {parent(key)}
         IN  IF fault.at = k /\ fault.stage = "mkdir"
             THEN [S EXCEPT !.io = @ \o <<mkdir>>, !.ok = FALSE]
             ELSE IF fault.at = k /\ fault.stage = "open"
             THEN [S EXCEPT !.dirs = dirs1, !.io = @ \o <<mkdir, open>>, !.ok = FALSE]
             ELSE IF fault.at = k /\ fault.stage = "write"
             THEN [S EXCEPT !.dirs = dirs1, !.io = @ \o <<mkdir, open, Call("write", key, fault.n)>>, !.ok = FALSE,
                            !.files = Put(S.files, key, old \o SubSeq(lines, 1, fault.n))]
             ELSE [S EXCEPT !.dirs = dirs1, !.io = @ \o <<mkdir, open, Call("write", key, Len(lines))>>,
                            !.files = Put(S.files, key, old \o lines),
                            !.buf = [S.buf EXCEPT ![key] = <<>>]]

RECURSIVE flush_loop(_, _, _, _, _)
\* for key, rows in list(_buf.items()): ... ; an exception ends the loop.
flush_loop(S, cols, order, k, fault) ==
    IF k > Len(order) \/ ~S.ok THEN S
    ELSE flush_loop(flush_one(S, cols, order[k], k, fault), cols, order, k + 1, fault)

\* flush_all() on the buffer B and the storage (files, dirs).
flush_all(B, fs, ds, fault) ==
    flush_loop([buf |-> B.buf, files |-> fs, dirs |-> ds, io |-> <<>>, ok |-> TRUE], B.cols, B.order, 1, fault)

\* The faults that can happen in a flush_all of B: a storage call of a key
\* with pending rows raises.
Faults(B, fs) ==
    { [at |-> k, stage |-> st, n |-> n] :
        k \in { j \in 1..Len(B.order) : B.buf[B.order[j]] # <<>> },
        st \in {"mkdir", "open"}, n \in {0} }
    \cup
    UNION { { [at |-> k, stage |-> "write", n |-> n] :
                n \in 0..(Len(B.buf[B.order[k]]) + (IF B.order[k] \in DOMAIN fs THEN 0 ELSE 1)) } :
            k \in { j \in 1..Len(B.order) : B.buf[B.order[j]] # <<>> } }

\* ------------------------------------------------------------- inputs
SYMBOL == <<"B","T","C","U","S","D","T">>

\* Feed timestamps in milliseconds: 2023-11-14 22:13:20.000, 23:59:59.000
\* and 2023-11-15 00:00:01.000 UTC.
MS_1700000000000 == Big(1700000, 0)
MS_DAY_END == Big(1700006, 399000)
MS_NEXT_DAY == Big(1700006, 401000)

\* Readings of time.time_ns(): 2023-11-14 23:59:59.999999999 and
\* 2023-11-15 00:00:01.000000000 UTC.
NS_DAY_END == [hi |-> 1700006399, lo |-> 999999999]
NS_NEXT_DAY == [hi |-> 1700006401, lo |-> 0]

BuyEntry == [T |-> MS_1700000000000, i |-> "123", S |-> "Buy", p |-> "50000.5", v |-> "0.01"]
SellEntry == [T |-> MS_DAY_END, i |-> "124", S |-> "Sell", p |-> "50001.0", v |-> "0.5"]
NoPriceEntry == [T |-> MS_DAY_END, i |-> "125", S |-> "Buy", v |-> "0.5"]
LowerCaseSideEntry == [T |-> MS_NEXT_DAY, i |-> "126", S |-> "buy", p |-> "50002.0", v |-> "0.2"]

Text == [kind |-> "text"]
Array == [kind |-> "array"]
Object(obj) == [kind |-> "object", obj |-> obj]

\* The inbound messages of the model.
RawMessages ==
    << Text,
       Array,
       Object([success |-> TRUE, op |-> "subscribe"]),
       Object([topic |-> PUBLIC_TRADE \o SYMBOL, ts |-> MS_DAY_END, data |-> <<BuyEntry>>]),
       Object([topic |-> PUBLIC_TRADE \o SYMBOL, ts |-> MS_NEXT_DAY, data |-> <<BuyEntry, SellEntry>>]),
       Object([topic |-> PUBLIC_TRADE \o SYMBOL, data |-> <<BuyEntry>>]),
       Object([topic |-> PUBLIC_TRADE \o SYMBOL, ts |-> MS_DAY_END, data |-> <<SellEntry, NoPriceEntry>>]),
       Object([topic |-> ORDERBOOK_1 \o SYMBOL, ts |-> MS_DAY_END, cts |-> MS_1700000000000, type |-> "snapshot",
               data |-> [b |-> << <<"49999.0", "1.2">> >>, a |-> << <<"50000.0", "0.8">> >>]]),
       Object([topic |-> ORDERBOOK_1 \o SYMBOL, ts |-> MS_NEXT_DAY, type |-> "delta",
               data |-> [b |-> << <<"49999.0", "1.2">> >>, a |-> << >>]]),
       Object([topic |-> ORDERBOOK_1 \o SYMBOL, type |-> "delta",
               data |-> [b |-> << <<"49999.0", "1.2">> >>, a |-> << <<"50000.0", "0.8">> >>]]),
       Object([topic |-> PUBLIC_TRADE \o SYMBOL, ts |-> MS_NEXT_DAY, data |-> <<LowerCaseSideEntry>>]),
       Object([topic |-> PUBLIC_TRADE \o SYMBOL, ts |-> MS_DAY_END, data |-> << >>]),
       Object([topic |-> ORDERBOOK_1 \o SYMBOL, ts |-> MS_NEXT_DAY, type |-> "delta"]),
       Object([topic |-> ORDERBOOK_1 \o SYMBOL, ts |-> MS_NEXT_DAY, type |-> "delta",
               data |-> [a |-> << <<"50000.0", "0.8">> >>]]),
       Object([topic |-> ORDERBOOK_1 \o SYMBOL, ts |-> MS_DAY_END, cts |-> Big(0, 0), type |-> "delta",
               data |-> [b |-> << <<"49999.0", "1.2">> >>, a |-> << <<"50000.0", "0.8">> >>]]) >>

\* The environments of the model: the arrivals the feed and the clock
\* can produce in one behaviour, each an index of RawMessages and the
\* reading time.time_ns() gives while that message is handled.
Feeds ==
    << ({1, 2, 3} \X {NS_DAY_END}) \cup {<<11, NS_DAY_END>>, <<4, NS_NEXT_DAY>>},
       {5, 6, 7, 12} \X {NS_DAY_END},
       {4, 8, 10} \X {NS_NEXT_DAY},
       {<<15, NS_DAY_END>>} \cup ({9, 13, 14} \X {NS_NEXT_DAY}) >>

\* The command line of the model: two instruments, in lower case.
ARGS == << <<"b","t","c","u","s","d","t">>, <<"e","t","h","u","s","d","t">> >>

\* str.upper() of one character.
upper_char(c) ==
    IF \E i \in 1..Len(LowerCase) : LowerCase[i] = c
    THEN UpperCase[CHOOSE i \in 1..Len(LowerCase) : LowerCase[i] = c]
    ELSE c

\* str.upper().
upper(s) == [i \in 1..Len(s) |-> upper_char(s[i])]

\* symbols = [s.upper() for s in args.symbols]
symbols == [i \in 1..Len(ARGS) |-> upper(ARGS[i])]

RECURSIVE topics(_)
\* for sym in symbols: topics.append(f"publicTrade.{sym}");
\* topics.append(f"orderbook.1.{sym}")
topics(syms) ==
    IF syms = <<>> THEN <<>>
    ELSE <<PUBLIC_TRADE \o Head(syms), ORDERBOOK_1 \o Head(syms)>> \o topics(Tail(syms))

\* sub_msg = json.dumps({"op": "subscribe", "args": topics})
sub_msg == [op |-> "subscribe", args |-> topics(symbols)]

\* a <= b on pairs.
Leq(a, b) == a.hi < b.hi \/ (a.hi = b.hi /\ a.lo <= b.lo)

\* The messages for which collect() calls on_trade or on_quote, whose
\* first statement reads the clock (lines 115, 134).
reads_clock(raw) ==
    /\ raw.kind = "object"
    /\ LET topic == Get(raw.obj, "topic", <<>>) IN startswith(topic, PUBLIC_TRADE) \/ startswith(topic, ORDERBOOK_1)

\* The history of the clock after the reading ns.
read(c, ns) == [high |-> IF Leq(c.high, ns) THEN ns ELSE c.high, back |-> c.back \/ ~Leq(c.high, ns)]

\* -------------------------------------------------------------- state
VARIABLES
    pc,           \* the process: "running", "exited" (interrupted, final flush done),
                  \* "failed" (final flush raised), "killed" (ended with no handler run)
    cm,           \* collect(): "connecting", "connected" (about to send the
                  \* subscription), "streaming", "backoff" (in asyncio.sleep(5)),
                  \* "closed" (the process has ended)
    flusher,      \* the periodic_flush task: "sleeping", "dead" (ended by an
                  \* exception) or "cancelled" (the process has ended)
    _buf,         \* path -> pending rows
    _cols,        \* path -> column list
    order,        \* the keys of _buf in insertion order
    files,        \* path -> lines, for the files that exist
    dirs,         \* the directories that exist
    io,           \* the storage calls of the latest flush_all
    nextId,       \* history: rows enqueued so far
    enqlog,       \* history: path -> identities enqueued and not lost with a process
    storageFault, \* history: a storage call has raised
    atStart,      \* history: path -> lines of the file when the latest process started
    feed,         \* the environment of this behaviour: an index of Feeds
    flushTasks,   \* the periodic_flush tasks the process has created
    sent,         \* the messages sent on the open connection (none when there is no connection)
    clock         \* history of time.time_ns(): high, the greatest reading so far, and
                  \* back, whether a reading was lower than one before it

vars == <<pc, cm, flusher, _buf, _cols, order, files, dirs, io, nextId, enqlog, storageFault, atStart, feed, flushTasks, sent, clock>>

Empty == [x \in {} |-> <<>>]

TheBuffer == Buffer(_buf, _cols, order, nextId, enqlog)

Init ==
    /\ pc = "running"
    /\ cm = "connecting"
    /\ flusher = "sleeping"
    /\ _buf = Empty
    /\ _cols = Empty
    /\ order = <<>>
    /\ files = Empty
    /\ dirs = {}
    /\ io = <<>>
    /\ nextId = 0
    /\ enqlog = Empty
    /\ storageFault = FALSE
    /\ atStart = Empty
    /\ feed \in 1..Len(Feeds)
    /\ flushTasks = 1
    /\ sent = <<>>
    /\ clock = [high |-> Big(0, 0), back |-> FALSE]

NothingPending == \A key \in DOMAIN _buf : _buf[key] = <<>>

\* The identities of log that are not pending in buf.
RECURSIVE Without(_, _)
Without(log, pending) ==
    IF log = <<>> THEN <<>>
    ELSE IF \E i \in 1..Len(pending) : pending[i].id = Head(log)
         THEN Without(Tail(log), pending)
         ELSE <<Head(log)>> \o Without(Tail(log), pending)

\* The history of the rows that were not lost with the memory of a process
\* whose pending rows were buf.
Kept(log, buf) == [key \in DOMAIN log |-> Without(log[key], Get(buf, key, <<>>))]

\* ------------------------------------------------------------ collect
\* Connect with asyncio.create_task(periodic_flush()) inside `while True`:
\* every connection starts one more flush task.
ConnectStartsFlusher ==
    /\ pc = "running" /\ cm = "connecting"
    /\ cm' = "connected"
    /\ sent' = <<>>
    /\ flushTasks' = IF flushTasks < 2 THEN flushTasks + 1 ELSE flushTasks
    /\ UNCHANGED <<pc, flusher, _buf, _cols, order, files, dirs, io, nextId, enqlog, storageFault, atStart, feed, clock>>

\* websockets.connect(...) succeeds: the body of `async with` is entered
\* with a new connection, on which nothing was sent yet.
Connect ==
    /\ pc = "running" /\ cm = "connecting"
    /\ cm' = "connected"
    /\ sent' = <<>>
    /\ UNCHANGED <<pc, flusher, _buf, _cols, order, files, dirs, io, nextId, enqlog, storageFault, atStart, feed, flushTasks, clock>>

\* websockets.connect(...) raises: except Exception, then asyncio.sleep(5).
ConnectFail ==
    /\ pc = "running" /\ cm = "connecting"
    /\ cm' = "backoff"
    /\ UNCHANGED <<pc, flusher, _buf, _cols, order, files, dirs, io, nextId, enqlog, storageFault, atStart, feed, flushTasks, sent, clock>>

\* Subscribe without `await ws.send(sub_msg)`: the `async for` starts on a
\* connection on which no subscription was sent.
SubscribeNotSent ==
    /\ pc = "running" /\ cm = "connected"
    /\ cm' = "streaming"
    /\ UNCHANGED <<pc, flusher, _buf, _cols, order, files, dirs, io, nextId, enqlog, storageFault, atStart, feed, flushTasks, sent, clock>>

\* await ws.send(sub_msg) returns: the `async for` starts.
Subscribe ==
    /\ pc = "running" /\ cm = "connected"
    /\ cm' = "streaming"
    /\ sent' = Append(sent, sub_msg)
    /\ UNCHANGED <<pc, flusher, _buf, _cols, order, files, dirs, io, nextId, enqlog, storageFault, atStart, feed, flushTasks, clock>>

\* await ws.send(sub_msg) raises.
SubscribeFail ==
    /\ pc = "running" /\ cm = "connected"
    /\ cm' = "backoff"
    /\ UNCHANGED <<pc, flusher, _buf, _cols, order, files, dirs, io, nextId, enqlog, storageFault, atStart, feed, flushTasks, sent, clock>>

\* One turn of `async for raw in ws` with the message raw, the clock
\* reading ns: an exception of the body leaves both loops for the
\* `except Exception` of collect.
Consume(raw, ns) ==
    /\ pc = "running" /\ cm = "streaming"
    /\ LET res == on_message(TheBuffer, raw, ns) IN
       /\ res.B.n <= MaxRecords
       /\ _buf' = res.B.buf
       /\ _cols' = res.B.cols
       /\ order' = res.B.order
       /\ nextId' = res.B.n
       /\ enqlog' = res.B.log
       /\ cm' = IF res.ok THEN "streaming" ELSE "backoff"
       /\ sent' = IF res.ok THEN sent ELSE <<>>
    /\ clock' = IF reads_clock(raw) THEN read(clock, ns) ELSE clock
    /\ UNCHANGED <<pc, flusher, files, dirs, io, storageFault, atStart, feed, flushTasks>>

Receive == \E a \in Feeds[feed] : Consume(RawMessages[a[1]], a[2])

\* The `async for` raises (the connection dropped with an error, a ping
\* timed out).
TransportFault ==
    /\ pc = "running" /\ cm = "streaming"
    /\ cm' = "backoff"
    /\ sent' = <<>>
    /\ UNCHANGED <<pc, flusher, _buf, _cols, order, files, dirs, io, nextId, enqlog, storageFault, atStart, feed, flushTasks, clock>>

\* The `async for` ends (the peer closed the connection normally): the
\* `async with` is left without an exception and `while True` connects again.
PeerClose ==
    /\ pc = "running" /\ cm = "streaming"
    /\ cm' = "connecting"
    /\ sent' = <<>>
    /\ UNCHANGED <<pc, flusher, _buf, _cols, order, files, dirs, io, nextId, enqlog, storageFault, atStart, feed, flushTasks, clock>>

\* The except clause leaving collect() instead of looping (a return, or a
\* retry limit that was reached): asyncio.run returns and the program ends
\* by itself, with no connection attempted again.
BackoffGivesUp ==
    /\ pc = "running" /\ cm = "backoff"
    /\ pc' = "returned"
    /\ cm' = "closed"
    /\ UNCHANGED <<flusher, _buf, _cols, order, files, dirs, io, nextId, enqlog, storageFault, atStart, feed, flushTasks, sent, clock>>

\* asyncio.sleep(5) of the except clause returns: the next turn of `while True`.
BackoffExpire ==
    /\ pc = "running" /\ cm = "backoff"
    /\ cm' = "connecting"
    /\ UNCHANGED <<pc, flusher, _buf, _cols, order, files, dirs, io, nextId, enqlog, storageFault, atStart, feed, flushTasks, sent, clock>>

\* ----------------------------------------------------- periodic_flush
\* periodic_flush flushing only while collect() is in its `async for`.
PeriodicFlushWhileStreaming ==
    /\ pc = "running" /\ flusher = "sleeping" /\ cm = "streaming"
    /\ LET S == flush_all(TheBuffer, files, dirs, NoFault) IN
       /\ _buf' = S.buf
       /\ files' = S.files
       /\ dirs' = S.dirs
       /\ io' = S.io
    /\ UNCHANGED <<pc, cm, flusher, _cols, order, nextId, enqlog, storageFault, atStart, feed, flushTasks, sent, clock>>

\* asyncio.sleep(FLUSH_INTERVAL_SEC) returns and flush_all() returns.
PeriodicFlush ==
    /\ pc = "running" /\ flusher = "sleeping"
    /\ LET S == flush_all(TheBuffer, files, dirs, NoFault) IN
       /\ _buf' = S.buf
       /\ files' = S.files
       /\ dirs' = S.dirs
       /\ io' = S.io
    /\ UNCHANGED <<pc, cm, flusher, _cols, order, nextId, enqlog, storageFault, atStart, feed, flushTasks, sent, clock>>

\* asyncio.sleep(FLUSH_INTERVAL_SEC) returns and flush_all() raises: the
\* exception ends the task periodic_flush; nothing awaits the task.
PeriodicFlushFault ==
    /\ pc = "running" /\ flusher = "sleeping"
    /\ \E fault \in Faults(TheBuffer, files) :
         LET S == flush_all(TheBuffer, files, dirs, fault) IN
         /\ _buf' = S.buf
         /\ files' = S.files
         /\ dirs' = S.dirs
         /\ io' = S.io
    /\ flusher' = "dead"
    /\ storageFault' = TRUE
    /\ UNCHANGED <<pc, cm, _cols, order, nextId, enqlog, atStart, feed, flushTasks, sent, clock>>

\* --------------------------------------------------------------- main
\* main without the flush_all() of its except clause.
InterruptNoFlush ==
    /\ pc = "running"
    /\ pc' = "exited"
    /\ cm' = "closed"
    /\ flusher' = "cancelled"
    /\ flushTasks' = 0
    /\ sent' = <<>>
    /\ UNCHANGED <<_buf, _cols, order, files, dirs, io, nextId, enqlog, storageFault, atStart, feed, clock>>

\* KeyboardInterrupt leaves asyncio.run (both tasks are cancelled);
\* flush_all() returns; the process exits.
Interrupt ==
    /\ pc = "running"
    /\ LET S == flush_all(TheBuffer, files, dirs, NoFault) IN
       /\ _buf' = S.buf
       /\ files' = S.files
       /\ dirs' = S.dirs
       /\ io' = S.io
    /\ pc' = "exited"
    /\ cm' = "closed"
    /\ flusher' = "cancelled"
    /\ flushTasks' = 0
    /\ sent' = <<>>
    /\ UNCHANGED <<_cols, order, nextId, enqlog, storageFault, atStart, feed, clock>>

\* KeyboardInterrupt, and the final flush_all() raises: the process ends
\* with the exception and its memory is lost.
InterruptFault ==
    /\ pc = "running"
    /\ \E fault \in Faults(TheBuffer, files) :
         LET S == flush_all(TheBuffer, files, dirs, fault) IN
         /\ files' = S.files
         /\ dirs' = S.dirs
         /\ enqlog' = Kept(enqlog, S.buf)
    /\ pc' = "failed"
    /\ cm' = "closed"
    /\ flusher' = "cancelled"
    /\ _buf' = Empty
    /\ _cols' = Empty
    /\ order' = <<>>
    /\ io' = <<>>
    /\ storageFault' = TRUE
    /\ flushTasks' = 0
    /\ sent' = <<>>
    /\ UNCHANGED <<nextId, atStart, feed, clock>>

\* The process is ended from outside with no handler run (SIGKILL, power
\* loss): its memory is lost, the files stay.
Kill ==
    /\ pc = "running"
    /\ pc' = "killed"
    /\ cm' = "closed"
    /\ flusher' = "cancelled"
    /\ _buf' = Empty
    /\ _cols' = Empty
    /\ order' = <<>>
    /\ io' = <<>>
    /\ enqlog' = Kept(enqlog, _buf)
    /\ flushTasks' = 0
    /\ sent' = <<>>
    /\ UNCHANGED <<files, dirs, nextId, storageFault, atStart, feed, clock>>

\* The program is started again on the same output directory: the module
\* globals are empty (lines 52 to 54), collect() creates the flush task
\* and connects.
Restart ==
    /\ pc # "running"
    /\ pc' = "running"
    /\ cm' = "connecting"
    /\ flusher' = "sleeping"
    /\ _buf' = Empty
    /\ _cols' = Empty
    /\ order' = <<>>
    /\ io' = <<>>
    /\ enqlog' = Kept(enqlog, _buf)
    /\ atStart' = [key \in DOMAIN files |-> Len(files[key])]
    /\ flushTasks' = 1
    /\ UNCHANGED <<files, dirs, nextId, storageFault, feed, sent, clock>>

Next ==
    \/ Connect
    \/ ConnectFail
    \/ Subscribe
    \/ SubscribeFail
    \/ Receive
    \/ TransportFault
    \/ PeerClose
    \/ BackoffExpire
    \/ PeriodicFlush
    \/ PeriodicFlushFault
    \/ Interrupt
    \/ InterruptFault
    \/ Kill
    \/ Restart

Spec == Init /\ [][Next]_vars

\* asyncio.sleep(5) returns after five seconds: the event loop resumes
\* collect() unless the process has ended.
FairSpec == Spec /\ WF_vars(BackoffExpire)

\* asyncio.sleep(FLUSH_INTERVAL_SEC) returns after five seconds: every wait
\* of collect() is an await, so the event loop resumes periodic_flush.
FlushFairSpec == Spec /\ WF_vars(PeriodicFlush)

\* ------------------------------------------- enqueue and flush_all
\* The functions enqueue and flush_all called directly, with arguments the
\* handlers of collect() never pass: two partitions, two column lists
\* over the same two columns, two rows.
EnqueuePaths == { [date |-> <<2023, 11, 14>>, symbol |-> lower(SYMBOL), name |-> n] : n \in {"trades.gz", "quotes.gz"} }

EnqueueCols == { <<"price", "amount">>, <<"amount", "price">> }

EnqueueRows == { [price |-> "50000.5", amount |-> "0.01"], [price |-> "50001.0", amount |-> "0.5"] }

\* enqueue(path, cols, row)
EnqueueCall ==
    /\ nextId < MaxRecords
    /\ \E path \in EnqueuePaths, cols \in EnqueueCols, row \in EnqueueRows :
         LET B == enqueue(TheBuffer, path, cols, row) IN
         /\ _buf' = B.buf
         /\ _cols' = B.cols
         /\ order' = B.order
         /\ nextId' = B.n
         /\ enqlog' = B.log
    /\ UNCHANGED <<pc, cm, flusher, files, dirs, io, storageFault, atStart, feed, flushTasks, sent, clock>>

\* flush_all()
FlushCall ==
    /\ LET S == flush_all(TheBuffer, files, dirs, NoFault) IN
       /\ _buf' = S.buf
       /\ files' = S.files
       /\ dirs' = S.dirs
       /\ io' = S.io
    /\ UNCHANGED <<pc, cm, flusher, _cols, order, nextId, enqlog, storageFault, atStart, feed, flushTasks, sent, clock>>

EnqueueNext ==
    \/ EnqueueCall
    \/ FlushCall

EnqueueSpec == Init /\ [][EnqueueNext]_vars

\* ------------------------------------------------------------- claims
\* The identities of the rows of a sequence of lines (headers left out).
RECURSIVE RowIds(_)
RowIds(lines) ==
    IF lines = <<>> THEN <<>>
    ELSE IF Head(lines).hdr THEN RowIds(Tail(lines))
    ELSE <<Head(lines).id>> \o RowIds(Tail(lines))

\* The identities of the data rows of the file of key (none when absent).
FileIds(fs, key) == RowIds(Get(fs, key, <<>>))

\* The identities of the pending rows of key.
PendingIds(buf, key) == LET rows == Get(buf, key, <<>>) IN [i \in 1..Len(rows) |-> rows[i].id]

Occurrences(seq, x) == Cardinality({ i \in 1..Len(seq) : seq[i] = x })

Keys == DOMAIN _buf \cup DOMAIN files \cup DOMAIN enqlog

\* Every row enqueued (and not lost with a process) is in exactly one
\* place, once: a line of the file of its partition or its pending list.
ExactlyOnce ==
    \A key \in DOMAIN enqlog : \A i \in 1..Len(enqlog[key]) :
        \A other \in Keys :
            Occurrences(FileIds(files, other), enqlog[key][i]) + Occurrences(PendingIds(_buf, other), enqlog[key][i])
                = (IF other = key THEN 1 ELSE 0)

\* A run of flush_all that returns.
FlushReturns == PeriodicFlush \/ Interrupt

\* C1: a flush is atomic with respect to enqueue.  When flush_all returns,
\* every partition has an empty pending list and the batch appended to its
\* file is its whole pending list as it was; and, while no storage call
\* has raised, every enqueued row is in exactly one place: once in its
\* file or once in its pending list (not dropped, not written twice).
C1_FlushAtomic ==
    [][ /\ FlushReturns =>
              \A key \in DOMAIN _buf :
                  /\ _buf'[key] = <<>>
                  /\ FileIds(files', key) = FileIds(files, key) \o PendingIds(_buf, key)
        /\ ~storageFault' => ExactlyOnce' ]_vars

\* C1 witness: a batch is in a file and a row enqueued after that flush is
\* pending for the next one.
C1_Witness ==
    /\ pc = "running" /\ ~storageFault
    /\ \E key \in DOMAIN _buf : FileIds(files, key) # <<>> /\ _buf[key] # <<>>

\* C2: while no storage call has raised, the data rows of each file are
\* the rows enqueued to its partition and already flushed, each once, in
\* the order they were enqueued: the rows of the file followed by the
\* pending rows are the rows enqueued to the partition, in that order.
C2_FlushedInOrder ==
    ~storageFault =>
        /\ \A key \in DOMAIN enqlog : FileIds(files, key) \o PendingIds(_buf, key) = enqlog[key]
        /\ \A key \in (DOMAIN files \cup DOMAIN _buf) \ DOMAIN enqlog :
               FileIds(files, key) = <<>> /\ PendingIds(_buf, key) = <<>>

\* C2 witness: a file holds the rows of two flushes of one process, the
\* earlier enqueued first: the header and two rows, of which the latest
\* flush_all wrote one line.
C2_Witness ==
    /\ ~storageFault /\ atStart = Empty
    /\ \E key \in DOMAIN files :
           /\ Len(files[key]) = 3
           /\ FileIds(files, key)[1] < FileIds(files, key)[2]
           /\ \E i \in 1..Len(io) : io[i] = Call("write", key, 1)

\* C3: in every file a header line is the first line and nowhere else (so
\* no flush, of the same process or after a restart, writes a second
\* one); and, while no storage call has raised, every file that exists
\* holds records and starts with the header of its column list.
C3_HeaderOnce ==
    /\ \A key \in DOMAIN files : \A i \in 1..Len(files[key]) : files[key][i].hdr => i = 1
    /\ ~storageFault =>
           \A key \in DOMAIN files :
               /\ Len(files[key]) >= 2
               /\ files[key][1] = header_line(IF key.name = "trades.gz" THEN TRADE_COLS ELSE QUOTE_COLS)

\* C3 witness: after a restart the new process has flushed to a file that
\* holds a row of the process before it.
C3_Witness ==
    /\ ~storageFault /\ pc = "running"
    /\ \E key \in DOMAIN atStart :
           /\ atStart[key] >= 2
           /\ Len(files[key]) > atStart[key]

\* C4 (the claim as stated): after a storage fault in a periodic flush the
\* process is over, so no record is enqueued any more by that process.
C4_StorageFaultStopsIngest ==
    [][(pc = "running" /\ flusher = "dead") => nextId' = nextId]_vars

\* A message the claim C5 calls malformed: text that is not JSON, JSON
\* that is not an object, a trade or quote object without ts, a trade
\* entry without one of T, i, S, p, v.
Malformed(raw) ==
    \/ raw.kind = "text"
    \/ raw.kind = "array"
    \/ /\ raw.kind = "object"
       /\ "topic" \in DOMAIN raw.obj
       /\ \/ "ts" \notin DOMAIN raw.obj
          \/ /\ startswith(raw.obj.topic, PUBLIC_TRADE)
             /\ \E k \in 1..Len(Get(raw.obj, "data", <<>>)) : ~(TRADE_KEYS \subseteq DOMAIN raw.obj.data[k])

\* C5 (the claim as stated): consuming a malformed message leaves the
\* connection in Streaming and adds no record to the buffer.
C5_MalformedDiscarded ==
    [][\A a \in Feeds[feed] :
          (Malformed(RawMessages[a[1]]) /\ Consume(RawMessages[a[1]], a[2]))
              => (cm' = "streaming" /\ _buf' = _buf /\ nextId' = nextId)]_vars

\* C6 (the claim as stated): while the process runs, collect() starts a
\* connect attempt only out of the backoff wait.
C6_BackoffBeforeConnect ==
    [][(pc = "running" /\ pc' = "running" /\ cm # "connecting" /\ cm' = "connecting") => cm = "backoff"]_vars

\* C7: the connection manager has no terminal state and no retry limit.
\* Whenever collect() is in the backoff wait after a fault, it attempts to
\* connect again, unless the process is ended from outside (interrupted
\* or killed) first.
C7_ReconnectsForever ==
    (pc = "running" /\ cm = "backoff") ~> (cm = "connecting" \/ pc \in {"exited", "failed", "killed"})

\* C7 witness: collect() is in backoff after a fault of a connection that
\* had streamed records, with the flush task already dead.
C7_Witness == pc = "running" /\ cm = "backoff" /\ nextId > 0 /\ flusher = "dead"

\* C8: when the process has exited after an interrupt (the final
\* flush_all returned), no partition has pending rows and every row
\* enqueued by the process is in the file of its partition.
C8_FinalFlush ==
    pc = "exited" =>
        /\ \A key \in DOMAIN _buf : _buf[key] = <<>>
        /\ \A key \in DOMAIN enqlog : \A i \in 1..Len(enqlog[key]) :
               Occurrences(FileIds(files, key), enqlog[key][i]) >= 1

\* C8 witness: the process has exited and its final flush_all wrote rows
\* that were pending at the interrupt.
C8_Witness ==
    /\ pc = "exited" /\ ~storageFault
    /\ \E i \in 1..Len(io) : io[i].op = "write"

\* The UTC date of a receipt timestamp of the model's clock readings,
\* which lie on 2023-11-14 and 2023-11-15 (midnight is 1700006400 s).
ReceiptDate(row) == IF row.local_timestamp.hi < 1700006400 THEN <<2023, 11, 14>> ELSE <<2023, 11, 15>>
EventDate(row) == IF row.event_timestamp.hi < 1700006400 THEN <<2023, 11, 14>> ELSE <<2023, 11, 15>>

\* C9: every pending row is in the partition of the UTC date of its
\* receipt timestamp, of its lowercased symbol and of its kind.
C9_PartitionByReceipt ==
    \A key \in DOMAIN _buf : \A i \in 1..Len(_buf[key]) :
        LET row == _buf[key][i].row IN
        /\ key.date = ReceiptDate(row)
        /\ key.symbol = <<"b","t","c","u","s","d","t">>
        /\ row.symbol = SYMBOL
        /\ key.name = (IF "trade_id" \in DOMAIN row THEN "trades.gz" ELSE "quotes.gz")

\* C9 witness: a row whose event timestamp is on 2023-11-14 (23:59:59)
\* and whose receipt timestamp is on 2023-11-15 (00:00:01) is pending in
\* the partition of 2023-11-15.
C9_Witness ==
    \E key \in DOMAIN _buf : \E i \in 1..Len(_buf[key]) :
        /\ EventDate(_buf[key][i].row) = <<2023, 11, 14>>
        /\ ReceiptDate(_buf[key][i].row) = <<2023, 11, 15>>
        /\ key.date = <<2023, 11, 15>>

\* Every file that exists holds at least one row.
NoEmptyFile == \A key \in DOMAIN files : FileIds(files, key) # <<>>

\* C10: flush_all has no storage effect for a partition with no pending
\* rows: it makes no storage call for it and leaves its file as it was;
\* a flush_all that finds nothing pending makes no storage call at all and
\* leaves files and directories unchanged; so, while no storage call has
\* raised, no file is empty or holds a header only.
C10_EmptyFlushNoEffect ==
    [][ /\ (PeriodicFlush \/ PeriodicFlushFault \/ Interrupt) =>
              /\ \A key \in DOMAIN _buf : _buf[key] = <<>> =>
                     /\ Get(files', key, <<>>) = Get(files, key, <<>>)
                     /\ (key \in DOMAIN files') = (key \in DOMAIN files)
                     /\ \A i \in 1..Len(io') : io'[i].path # key
              /\ NothingPending => (io' = <<>> /\ files' = files /\ dirs' = dirs)
        /\ ~storageFault' => NoEmptyFile' ]_vars

\* C10 witness: the latest flush_all of a process found every list empty,
\* cleared by the earlier flush that wrote the files: it made no storage
\* call (a step that changes nothing, so any number of them in a row).
C10_Witness ==
    /\ pc = "running" /\ ~storageFault /\ atStart = Empty
    /\ DOMAIN _buf # {} /\ NothingPending
    /\ DOMAIN files # {} /\ NoEmptyFile
    /\ io = <<>>

\* A valid trade message: an object under a publicTrade topic that carries
\* ts and whose data entries all carry T, i, S, p, v.
ValidTrade(raw) ==
    /\ raw.kind = "object"
    /\ "topic" \in DOMAIN raw.obj /\ startswith(raw.obj.topic, PUBLIC_TRADE)
    /\ "ts" \in DOMAIN raw.obj
    /\ \A k \in 1..Len(Get(raw.obj, "data", <<>>)) : TRADE_KEYS \subseteq DOMAIN raw.obj.data[k]

\* C11: consuming a valid trade message with N entries (N >= 0) adds
\* exactly N rows to the buffer: none when N = 0; otherwise all N at the
\* end of the pending list of one trades partition, in the order of the
\* data list, each with the id, price and size of its entry and the side
\* "buy" when the entry's S is "Buy" and "sell" for any other value; the
\* pending lists of the other partitions are left as they were.
C11_OneRowPerEntry ==
    [][\A a \in Feeds[feed] :
          (ValidTrade(RawMessages[a[1]]) /\ Consume(RawMessages[a[1]], a[2])) =>
              LET data == Get(RawMessages[a[1]].obj, "data", <<>>)
                  N == Len(data)
              IN  /\ nextId' = nextId + N
                  /\ N = 0 => _buf' = _buf
                  /\ N > 0 =>
                        \E key \in DOMAIN _buf' :
                            LET old == Get(_buf, key, <<>>) IN
                            /\ key.name = "trades.gz"
                            /\ Len(_buf'[key]) = Len(old) + N
                            /\ SubSeq(_buf'[key], 1, Len(old)) = old
                            /\ \A k \in 1..N :
                                   LET r == _buf'[key][Len(old) + k] IN
                                   /\ r.id = nextId + k
                                   /\ r.row.trade_id = data[k].i
                                   /\ r.row.price = data[k].p
                                   /\ r.row.amount = data[k].v
                                   /\ data[k].S = "Buy" => r.row.side = "buy"
                                   /\ data[k].S # "Buy" => r.row.side = "sell"
                            /\ \A other \in DOMAIN _buf' \ {key} :
                                   other \in DOMAIN _buf /\ _buf'[other] = _buf[other]]_vars

\* C11 witness: the two entries of one message ("123" Buy, "124" Sell) are
\* pending in one trades partition, in that order.
C11_Witness ==
    \E key \in DOMAIN _buf :
        /\ key.name = "trades.gz"
        /\ Len(_buf[key]) = 2
        /\ _buf[key][1].row.trade_id = "123" /\ _buf[key][1].row.side = "buy"
        /\ _buf[key][2].row.trade_id = "124" /\ _buf[key][2].row.side = "sell"
        /\ _buf[key][2].id = _buf[key][1].id + 1

\* A quote message with an empty or absent side: an object under an
\* orderbook.1 topic that carries ts and whose data has no b, no a, an
\* empty b or an empty a (or that has no data at all).
EmptySideQuote(raw) ==
    /\ raw.kind = "object"
    /\ "topic" \in DOMAIN raw.obj /\ startswith(raw.obj.topic, ORDERBOOK_1)
    /\ "ts" \in DOMAIN raw.obj
    /\ \/ "data" \notin DOMAIN raw.obj
       \/ "b" \notin DOMAIN raw.obj.data
       \/ "a" \notin DOMAIN raw.obj.data
       \/ raw.obj.data.b = <<>>
       \/ raw.obj.data.a = <<>>

\* C12: consuming a quote message whose bid list or ask list is empty or
\* absent produces no row and leaves the pending lists, the recorded
\* column lists and the partitions of the buffer as they were, and is no
\* fault: collect() stays in the `async for` of the same connection.
C12_EmptySideSkipped ==
    [][\A a \in Feeds[feed] :
          (EmptySideQuote(RawMessages[a[1]]) /\ Consume(RawMessages[a[1]], a[2])) =>
              /\ _buf' = _buf /\ _cols' = _cols /\ order' = order
              /\ nextId' = nextId
              /\ cm = "streaming" /\ cm' = "streaming" /\ sent' = sent]_vars

\* C12 witness: a quote row is pending and, after it was enqueued, a quote
\* with an empty or absent side was handled (in its feed only these
\* arrive at the later clock reading); collect() is streaming.
C12_Witness ==
    /\ pc = "running" /\ cm = "streaming"
    /\ \A a \in Feeds[feed] : a[2] = NS_NEXT_DAY => EmptySideQuote(RawMessages[a[1]])
    /\ clock = [high |-> NS_NEXT_DAY, back |-> FALSE]
    /\ \E key \in DOMAIN _buf : key.name = "quotes.gz" /\ _buf[key] # <<>>

\* The trade message of the end-to-end scenario: topic publicTrade.BTCUSDT
\* and a data list with the one entry {T: 1700000000000, i: "123",
\* S: "Buy", p: "50000.5", v: "0.01"}, and no other field (the sixth of
\* RawMessages).
ScenarioTrade == RawMessages[6]

\* C13 (the claim as stated): consuming the scenario's trade message
\* enqueues exactly one trade row, with price "50000.5", amount "0.01",
\* side "buy" and timestamp 1700000000000000, and collect() stays in the
\* `async for` of the same connection.
C13_ScenarioTradeRecorded ==
    [][\A a \in Feeds[feed] :
          (a[1] = 6 /\ Consume(ScenarioTrade, a[2])) =>
              /\ nextId' = nextId + 1
              /\ cm' = "streaming"
              /\ \E key \in DOMAIN _buf' :
                     /\ key.name = "trades.gz"
                     /\ _buf'[key] # <<>>
                     /\ LET r == _buf'[key][Len(_buf'[key])] IN
                        /\ r.id = nextId'
                        /\ r.row.price = "50000.5"
                        /\ r.row.amount = "0.01"
                        /\ r.row.side = "buy"
                        /\ decimal(r.row.timestamp) = <<"1","7","0","0","0","0","0","0","0","0","0","0","0","0","0","0">>]_vars

\* Every row enqueued (and not lost with a process) is a line of the file
\* of its partition.
AllWritten == \A key \in DOMAIN enqlog : FileIds(files, key) = enqlog[key]

\* C14: while the process runs and no storage call has raised, the flush
\* task is alive and its tick can fire in every state of collect()
\* (connecting, connected, streaming, backoff); a tick is one flush_all,
\* after which every row enqueued so far is in its file; and, the timer
\* being fair, rows that are pending are eventually all written, unless
\* the process ends or a storage call raises first.
C14_TicksFlushEverything ==
    /\ []((pc = "running" /\ ~storageFault) => (flusher = "sleeping" /\ ENABLED PeriodicFlush))
    /\ [][(PeriodicFlush /\ ~storageFault) => (AllWritten' /\ NothingPending')]_vars
    /\ (pc = "running" /\ ~storageFault /\ ~NothingPending)
           ~> (AllWritten \/ pc # "running" \/ storageFault)

\* C14 witness: a row is pending while collect() is in the backoff wait
\* after a fault, and the flush task is asleep until its next tick.
C14_Witness ==
    /\ pc = "running" /\ cm = "backoff" /\ flusher = "sleeping" /\ ~storageFault
    /\ ~NothingPending

\* C15: a running process has created exactly one periodic_flush task, and
\* no step that changes the state of collect() (a fault, the end of the
\* backoff wait, a connect, a subscribe, a close) creates or ends a flush
\* task or touches a pending row: every pending list keeps its rows, in
\* place, and changes only by the rows a consumed message appends.
C15_OneFlushTaskOneLoop ==
    /\ [](pc = "running" => flushTasks = 1)
    /\ [][(pc = "running" /\ pc' = "running" /\ cm' # cm) =>
              /\ flushTasks' = flushTasks
              /\ flusher' = flusher
              /\ \A key \in DOMAIN _buf :
                     /\ key \in DOMAIN _buf'
                     /\ Len(_buf'[key]) >= Len(_buf[key])
                     /\ SubSeq(_buf'[key], 1, Len(_buf[key])) = _buf[key]
                     /\ \A i \in (Len(_buf[key]) + 1)..Len(_buf'[key]) : _buf'[key][i].id > nextId
              /\ nextId' = nextId => (_buf' = _buf /\ _cols' = _cols /\ order' = order)]_vars

\* C15 witness: the row of trade "124" was enqueued by the message whose
\* second entry faulted the connection; collect() has reconnected and is
\* streaming again, in the same process, and the row is still pending.
C15_Witness ==
    /\ pc = "running" /\ cm = "streaming" /\ atStart = Empty /\ flushTasks = 1
    /\ nextId = 1
    /\ \E key \in DOMAIN _buf :
           /\ key.name = "trades.gz"
           /\ Len(_buf[key]) = 1
           /\ _buf[key][1].id = 1
           /\ _buf[key][1].row.trade_id = "124"

\* The subscribe message for the instruments BTCUSDT and ETHUSDT:
\* {"op": "subscribe", "args": ["publicTrade.BTCUSDT",
\* "orderbook.1.BTCUSDT", "publicTrade.ETHUSDT", "orderbook.1.ETHUSDT"]}.
ExpectedSubscribe ==
    [op |-> "subscribe",
     args |-> << <<"p","u","b","l","i","c","T","r","a","d","e",".","B","T","C","U","S","D","T">>,
                 <<"o","r","d","e","r","b","o","o","k",".","1",".","B","T","C","U","S","D","T">>,
                 <<"p","u","b","l","i","c","T","r","a","d","e",".","E","T","H","U","S","D","T">>,
                 <<"o","r","d","e","r","b","o","o","k",".","1",".","E","T","H","U","S","D","T">> >>]

\* C16: on a connection that was just opened nothing has been sent; the
\* step to the `async for` sends the one subscribe message, listing the
\* trade and the order-book topic of every instrument; while collect()
\* streams, exactly that one message has been sent on the connection; and
\* every message is consumed on a connection on which it was sent.
C16_SubscribedBeforeConsuming ==
    /\ [](cm = "connected" => sent = <<>>)
    /\ [](cm = "streaming" => sent = <<ExpectedSubscribe>>)
    /\ [][(cm # "streaming" /\ cm' = "streaming") => (cm = "connected" /\ sent = <<>> /\ sent' = <<ExpectedSubscribe>>)]_vars
    /\ [][\A a \in Feeds[feed] : Consume(RawMessages[a[1]], a[2]) => sent = <<ExpectedSubscribe>>]_vars

\* C16 witness: collect() streams on a connection opened after a fault
\* (the pending row was enqueued by the message that faulted the earlier
\* connection), and the subscribe message was sent on it, once.
C16_Witness ==
    /\ pc = "running" /\ cm = "streaming"
    /\ Len(sent) = 1 /\ sent[1].op = "subscribe" /\ Len(sent[1].args) = 2 * Len(ARGS)
    /\ \E key \in DOMAIN _buf :
           /\ key.name = "trades.gz"
           /\ _buf[key] # <<>>
           /\ _buf[key][1].id = nextId
           /\ _buf[key][1].row.trade_id = "124"

\* C17 (the claim as stated): the schema of a partition is the column list
\* of the first enqueue to it.  The first enqueue records the list it is
\* passed, so this says: no later enqueue changes the recorded list, and
\* the header flush_all writes to a new file is the list recorded before
\* the latest enqueue.
C17_SchemaFixedByFirstEnqueue ==
    [][\A key \in DOMAIN _cols : key \in DOMAIN _cols' /\ _cols'[key] = _cols[key]]_vars

\* d1 is an earlier calendar date than d2.
DateLess(d1, d2) ==
    \/ d1[1] < d2[1]
    \/ d1[1] = d2[1] /\ d1[2] < d2[2]
    \/ d1[1] = d2[1] /\ d1[2] = d2[2] /\ d1[3] < d2[3]

\* The partitions kD and kD1 are of one instrument and one kind, kD of an
\* earlier date.
Rollover(kD, kD1) == kD.symbol = kD1.symbol /\ kD.name = kD1.name /\ DateLess(kD.date, kD1.date)

\* The partitions that get a row in this step.
EnqueuedTo(key) == key \in DOMAIN enqlog' /\ nextId' > nextId /\ enqlog'[key] # <<>> /\ enqlog'[key][Len(enqlog'[key])] > nextId

\* C18: while the readings of the receipt clock have never gone back,
\* (1) no row is enqueued to a partition of an earlier date than a
\* partition of the same instrument and kind that already got a row;
\* (2) a flush_all that returns after the rollover leaves the pending list
\* of the earlier date empty; and (3) once that list is empty after the
\* rollover, no later step of the process adds a row to it or changes the
\* file of the earlier date.
C18_DatesMonotonic ==
    /\ [][\A key \in DOMAIN enqlog' : (EnqueuedTo(key) /\ ~clock'.back) =>
              \A other \in DOMAIN enqlog : ~Rollover(key, other)]_vars
    /\ [][\A kD \in DOMAIN _buf, kD1 \in DOMAIN _buf : (Rollover(kD, kD1) /\ FlushReturns) => _buf'[kD] = <<>>]_vars
    /\ [][\A kD \in DOMAIN _buf, kD1 \in DOMAIN _buf :
              (Rollover(kD, kD1) /\ _buf[kD] = <<>> /\ ~clock'.back) =>
                  /\ kD \in DOMAIN _buf' => _buf'[kD] = <<>>
                  /\ (kD \in DOMAIN files') = (kD \in DOMAIN files)
                  /\ Get(files', kD, <<>>) = Get(files, kD, <<>>)]_vars

\* C18 witness: with a clock that never went back, one process enqueued a
\* row on 2023-11-14 and one on 2023-11-15, and its latest flush_all, the
\* first after the rollover, wrote the files of both dates; the list of
\* 2023-11-14 is empty.
C18_Witness ==
    /\ pc = "running" /\ ~clock.back /\ atStart = Empty /\ ~storageFault
    /\ \E kD \in DOMAIN _buf, kD1 \in DOMAIN _buf :
           /\ Rollover(kD, kD1)
           /\ kD.date = <<2023, 11, 14>> /\ kD1.date = <<2023, 11, 15>>
           /\ _buf[kD] = <<>>
           /\ \E i \in 1..Len(io) : io[i].op = "write" /\ io[i].path = kD
           /\ \E i \in 1..Len(io) : io[i].op = "write" /\ io[i].path = kD1

\* A quote message that yields a record: an object under an orderbook.1
\* topic that carries ts and a data with a non-empty b and a non-empty a.
ValidQuote(raw) ==
    /\ raw.kind = "object"
    /\ "topic" \in DOMAIN raw.obj /\ startswith(raw.obj.topic, ORDERBOOK_1)
    /\ "ts" \in DOMAIN raw.obj
    /\ "data" \in DOMAIN raw.obj
    /\ "b" \in DOMAIN raw.obj.data /\ raw.obj.data.b # <<>>
    /\ "a" \in DOMAIN raw.obj.data /\ raw.obj.data.a # <<>>

\* C19 (the claim as stated): the row of a consumed quote message has
\* event_timestamp ts * 1000, and timestamp cts * 1000 whenever the
\* message carries cts (whatever its value, 0 included) and ts * 1000
\* only when it carries none.
C19_QuoteTimestampIsCts ==
    [][\A a \in Feeds[feed] :
          (ValidQuote(RawMessages[a[1]]) /\ Consume(RawMessages[a[1]], a[2])) =>
              LET msg == RawMessages[a[1]].obj IN
              \E key \in DOMAIN _buf' :
                  /\ key.name = "quotes.gz"
                  /\ _buf'[key] # <<>>
                  /\ LET r == _buf'[key][Len(_buf'[key])] IN
                     /\ r.id = nextId' /\ nextId' = nextId + 1
                     /\ r.row.event_timestamp = ms_to_us(msg.ts)
                     /\ "cts" \in DOMAIN msg => r.row.timestamp = ms_to_us(msg.cts)
                     /\ "cts" \notin DOMAIN msg => r.row.timestamp = ms_to_us(msg.ts)]_vars

\* The place of key in the dict order of _buf (0 when absent).
Place(key) == IF \E j \in 1..Len(order) : order[j] = key THEN CHOOSE j \in 1..Len(order) : order[j] = key ELSE 0

\* C20: a flush_all of the flush task that raises loses no pending row.
\* Every pending list is either left exactly as it was or was cleared
\* after all its rows were appended to its file; the lists left as they
\* were are, in the order flush_all goes through the partitions, the one
\* whose storage call raised and all after it, and the files of the ones
\* after it are untouched; at least one list with rows is kept.
C20_FaultKeepsRows ==
    [][PeriodicFlushFault =>
          /\ \A key \in DOMAIN _buf :
                 \/ _buf'[key] = _buf[key]
                 \/ /\ _buf'[key] = <<>>
                    /\ FileIds(files', key) = FileIds(files, key) \o PendingIds(_buf, key)
          /\ \E at \in DOMAIN _buf :
                 /\ _buf[at] # <<>> /\ _buf'[at] = _buf[at]
                 /\ io' # <<>> /\ io'[Len(io')].path = at
                 /\ \A key \in DOMAIN _buf :
                        /\ (Place(key) < Place(at) /\ _buf[key] # <<>>) => _buf'[key] = <<>>
                        /\ Place(key) > Place(at) =>
                               /\ _buf'[key] = _buf[key]
                               /\ Get(files', key, <<>>) = Get(files, key, <<>>)
                               /\ (key \in DOMAIN files') = (key \in DOMAIN files)]_vars

\* C20 witness: the flush task died in a flush_all that wrote and cleared
\* the first partition and raised on the second, whose row is pending.
C20_Witness ==
    /\ pc = "running" /\ flusher = "dead" /\ nextId = 2
    /\ Len(order) = 2
    /\ _buf[order[1]] = <<>> /\ FileIds(files, order[1]) # <<>>
    /\ Len(_buf[order[2]]) = 1
    /\ io # <<>> /\ io[Len(io)].path = order[2]
    /\ \E i \in 1..Len(io) : io[i].op = "write" /\ io[i].path = order[1]

====
